---- MODULE Spec2Model ----
(***************************************************************************)
(* Cycle detection of the pipeline backend: is_dag_dfs and find_cycle_dfs  *)
(* (backend/dag_utils.py) and is_dag_topological (backend/main.py).        *)
(*                                                                         *)
(* One call of one of the three functions is modelled as a state machine:  *)
(* the top-level "for node in nodes" loop, the recursive dfs as a stack of *)
(* frames (node, position of the neighbour iterator, path), every return   *)
(* as a step of its own that the caller then tests, and Kahn's worklist    *)
(* loop one pop at a time.  Each step is an operator on the record of the  *)
(* call's local variables, so that the same definitions give both the      *)
(* actions of the specification and, by iteration (Run), the value the     *)
(* function returns for an input.                                          *)
(***************************************************************************)
EXTENDS Integers, Sequences, FiniteSets, TLC

VARIABLES
    nodes,      \* argument: the list of node identifiers
    edges,      \* argument: the list of <<source, target>> pairs
    fn,         \* the function that is running
    pc,         \* where the call is: "loop", "walk", "ret", "kahn", "done", "error"
    adjacency,  \* local: node -> list of neighbours
    color,      \* local of the two DFS functions: node -> 0 | 1 | 2
    stack,      \* the active dfs calls, outermost first
    i,          \* position of the top-level "for node in nodes"
    ret,        \* the value the dfs call that just returned has returned
    indegree,   \* local of is_dag_topological
    queue,      \* local of is_dag_topological
    visited,    \* local of is_dag_topological
    result,     \* the value the function has returned (pc = "done")
    calls,      \* history: how often dfs was entered for each identifier
    pushes      \* history: how often each identifier was put on the worklist

vars == <<nodes, edges, fn, pc, adjacency, color, stack, i, ret,
          indegree, queue, visited, result, calls, pushes>>

----------------------------------------------------------------------------
(* Bounds of the model and the inputs they allow: node lists over three     *)
(* identifiers with as many entries as there are identifiers, so that lists *)
(* with and without a repeated identifier occur, and edge lists of up to    *)
(* MaxEdges pairs of identifiers, declared or not.                          *)

MaxEdges == 3

Ids == {"A", "B", "C"}

SeqsUpTo(S, n) == UNION {[1..k -> S] : k \in 0..n}

NodeLists == SeqsUpTo(Ids, Cardinality(Ids))
EdgeLists == SeqsUpTo(Ids \X Ids, MaxEdges)

----------------------------------------------------------------------------
(* Python values a function returns: None, a bool or a list.               *)

PyNone    == [kind |-> "None", b |-> FALSE, list |-> <<>>]
PyBool(v) == [kind |-> "bool", b |-> v,     list |-> <<>>]
PyList(l) == [kind |-> "list", b |-> FALSE, list |-> l]
Unset     == [kind |-> "unset", b |-> FALSE, list |-> <<>>]

\* Python's truth test, as in "if result:", "if cycle:" and "if not dfs(..)".
Truthy(v) ==
    CASE v.kind = "bool" -> v.b
      [] v.kind = "list" -> Len(v.list) > 0
      [] OTHER           -> FALSE

WHITE == 0
GRAY  == 1
BLACK == 2

----------------------------------------------------------------------------
(* Dictionaries keyed by the node list.                                    *)

Declared(ns) == {ns[k] : k \in 1..Len(ns)}

\* {node: v for node in nodes}: one key per distinct identifier.
DictOf(ns, v) == [n \in Declared(ns) |-> v]

\* The keys of such a dictionary in iteration order: first occurrences.
RECURSIVE Keys(_)
Keys(ns) ==
    IF ns = <<>> THEN <<>>
    ELSE LET front == Keys(SubSeq(ns, 1, Len(ns) - 1))
             last  == ns[Len(ns)]
         IN  IF last \in Declared(front) THEN front ELSE Append(front, last)

\* Mutation of AddEdges: only the source of an edge is looked up.
RECURSIVE AddEdges_SourceOnly(_, _, _)
AddEdges_SourceOnly(adj, es, k) ==
    IF k > Len(es) THEN adj
    ELSE LET source == es[k][1]
             target == es[k][2]
         IN  IF source \in DOMAIN adj
             THEN AddEdges_SourceOnly([adj EXCEPT ![source] = Append(@, target)],
                                      es, k + 1)
             ELSE AddEdges_SourceOnly(adj, es, k + 1)

\* The loop "for source, target in edges" of the two DFS functions, from
\* edge k on: an edge is kept when both ends are keys of adjacency.
RECURSIVE AddEdges(_, _, _)
AddEdges(adj, es, k) ==
    IF k > Len(es) THEN adj
    ELSE LET source == es[k][1]
             target == es[k][2]
         IN  IF source \in DOMAIN adj /\ target \in DOMAIN adj
             THEN AddEdges([adj EXCEPT ![source] = Append(@, target)], es, k + 1)
             ELSE AddEdges(adj, es, k + 1)

BuildAdjacency(ns, es) == AddEdges(DictOf(ns, <<>>), es, 1)

\* The locals no DFS function has, and the ones no Kahn call has.
NoDict == DictOf(<<>>, 0)
Zero   == [n \in Ids |-> 0]

----------------------------------------------------------------------------
(* is_dag_dfs.  A call is the record of its local variables.               *)

IsDagStart(ns, es) ==
    [fn |-> "is_dag_dfs", nodes |-> ns, edges |-> es, pc |-> "loop",
     adjacency |-> BuildAdjacency(ns, es),
     color |-> DictOf(ns, WHITE),
     stack |-> <<>>, i |-> 1, ret |-> Unset,
     indegree |-> NoDict, queue |-> <<>>, visited |-> 0,
     result |-> Unset, calls |-> Zero, pushes |-> Zero]

\* A lookup d[key] of a dictionary raises KeyError when the key is missing.
Raise(s) == [s EXCEPT !.pc = "error"]

\* dfs(node) is entered: its frame is pushed and its first statement,
\* color[node] = 1, is executed.
IsDagEnter(s, node) ==
    [s EXCEPT !.color[node] = GRAY,
              !.stack = Append(@, [node |-> node, idx |-> 1]),
              !.calls[node] = @ + 1,
              !.pc = "walk"]

\* Mutation of IsDagLoop: dfs is called for every entry of the node list,
\* whatever its colour.
IsDagLoop_NoColourTest(s) ==
    IF s.i > Len(s.nodes)
    THEN [s EXCEPT !.pc = "done", !.result = PyBool(TRUE)]
    ELSE IsDagEnter(s, s.nodes[s.i])

\* The top-level loop at "for node in nodes" / "if color[node] == 0".
IsDagLoop(s) ==
    IF s.i > Len(s.nodes)
    THEN [s EXCEPT !.pc = "done", !.result = PyBool(TRUE)]
    ELSE LET node == s.nodes[s.i]
         IN  IF s.color[node] = WHITE
             THEN IsDagEnter(s, node)
             ELSE [s EXCEPT !.i = @ + 1]

\* The innermost dfs call returns v: its frame is popped.
Return(s, v) ==
    [s EXCEPT !.stack = SubSeq(@, 1, Len(@) - 1), !.ret = v, !.pc = "ret"]

\* Mutation of IsDagWalk: a visited flag instead of three colours, so that
\* any neighbour seen before counts as a cycle.
IsDagWalk_TwoColours(s) ==
    LET top  == Len(s.stack)
        node == s.stack[top].node
        idx  == s.stack[top].idx
    IN  IF idx > Len(s.adjacency[node])
        THEN Return([s EXCEPT !.color[node] = BLACK], PyBool(TRUE))
        ELSE LET neighbor == s.adjacency[node][idx]
                 next     == [s EXCEPT !.stack[top].idx = idx + 1]
             IN  IF neighbor \notin DOMAIN s.color THEN Raise(s)
                 ELSE IF s.color[neighbor] # WHITE
                      THEN Return(s, PyBool(FALSE))
                 ELSE IsDagEnter(next, neighbor)

\* One turn of "for neighbor in adjacency[node]" in the innermost dfs call,
\* or the two statements after the loop.
IsDagWalk(s) ==
    LET top  == Len(s.stack)
        node == s.stack[top].node
        idx  == s.stack[top].idx
    IN  IF idx > Len(s.adjacency[node])
        THEN Return([s EXCEPT !.color[node] = BLACK], PyBool(TRUE))
        ELSE LET neighbor == s.adjacency[node][idx]
                 next     == [s EXCEPT !.stack[top].idx = idx + 1]
             IN  IF neighbor \notin DOMAIN s.color THEN Raise(s)
                 ELSE IF s.color[neighbor] = GRAY
                      THEN Return(s, PyBool(FALSE))
                 ELSE IF s.color[neighbor] = WHITE
                      THEN IsDagEnter(next, neighbor)
                 ELSE next

\* Mutation of IsDagAfterCall: a dfs call marks its node done on every way
\* out, also when it hands a failure up.
IsDagAfterCall_MarksDone(s) ==
    IF s.stack = <<>>
    THEN IF ~Truthy(s.ret)
         THEN [s EXCEPT !.pc = "done", !.result = PyBool(FALSE)]
         ELSE [s EXCEPT !.pc = "loop", !.i = @ + 1]
    ELSE IF ~Truthy(s.ret)
         THEN Return([s EXCEPT !.color[s.stack[Len(s.stack)].node] = BLACK],
                     PyBool(FALSE))
         ELSE [s EXCEPT !.pc = "walk"]

\* The caller tests the value a dfs call returned: "if not dfs(neighbor):
\* return False" inside dfs, "if not dfs(node): return False" at top level.
IsDagAfterCall(s) ==
    IF s.stack = <<>>
    THEN IF ~Truthy(s.ret)
         THEN [s EXCEPT !.pc = "done", !.result = PyBool(FALSE)]
         ELSE [s EXCEPT !.pc = "loop", !.i = @ + 1]
    ELSE IF ~Truthy(s.ret)
         THEN Return(s, PyBool(FALSE))
         ELSE [s EXCEPT !.pc = "walk"]

IsDagStep(s) ==
    CASE s.pc = "loop" -> IsDagLoop(s)
      [] s.pc = "walk" -> IsDagWalk(s)
      [] s.pc = "ret"  -> IsDagAfterCall(s)
      [] OTHER         -> s

----------------------------------------------------------------------------
(* find_cycle_dfs.  The dictionary "parent" of the function is written     *)
(* once and never read; it is left out.                                    *)

FindCycleStart(ns, es) ==
    [fn |-> "find_cycle_dfs", nodes |-> ns, edges |-> es, pc |-> "loop",
     adjacency |-> BuildAdjacency(ns, es),
     color |-> DictOf(ns, WHITE),
     stack |-> <<>>, i |-> 1, ret |-> Unset,
     indegree |-> NoDict, queue |-> <<>>, visited |-> 0,
     result |-> Unset, calls |-> Zero, pushes |-> Zero]

\* dfs(node, path) is entered with its own list path: color[node] = 1 and
\* path.append(node) are executed.
FindCycleEnter(s, node, path) ==
    [s EXCEPT !.color[node] = GRAY,
              !.stack = Append(@, [node |-> node, idx |-> 1,
                                   path |-> Append(path, node)]),
              !.calls[node] = @ + 1,
              !.pc = "walk"]

\* The top-level loop: "if color[node] == 0: cycle = dfs(node, [])".
FindCycleLoop(s) ==
    IF s.i > Len(s.nodes)
    THEN [s EXCEPT !.pc = "done", !.result = PyNone]
    ELSE LET node == s.nodes[s.i]
         IN  IF s.color[node] = WHITE
             THEN FindCycleEnter(s, node, <<>>)
             ELSE [s EXCEPT !.i = @ + 1]

\* path.index(x): the first position of x in path; ValueError when absent.
Index(path, x) ==
    IF \E k \in 1..Len(path) : path[k] = x
    THEN CHOOSE k \in 1..Len(path) :
             path[k] = x /\ \A j \in 1..(k - 1) : path[j] # x
    ELSE 0

\* Mutation of CycleFrom: the loop is not closed, path[cycle_start_idx:].
CycleFrom_NotClosed(path, neighbor) ==
    SubSeq(path, Index(path, neighbor), Len(path))

\* Mutation of CycleFrom: the path is not cut, path + [neighbor].
CycleFrom_WholePath(path, neighbor) == Append(path, neighbor)

\* path[cycle_start_idx:] + [neighbor]
CycleFrom(path, neighbor) ==
    Append(SubSeq(path, Index(path, neighbor), Len(path)), neighbor)

FindCycleWalk(s) ==
    LET top  == Len(s.stack)
        node == s.stack[top].node
        idx  == s.stack[top].idx
        path == s.stack[top].path
    IN  IF idx > Len(s.adjacency[node])
        THEN Return([s EXCEPT !.color[node] = BLACK], PyNone)
        ELSE LET neighbor == s.adjacency[node][idx]
                 next     == [s EXCEPT !.stack[top].idx = idx + 1]
             IN  IF neighbor \notin DOMAIN s.color THEN Raise(s)
                 ELSE IF s.color[neighbor] = GRAY
                      THEN IF Index(path, neighbor) = 0 THEN Raise(s)
                           ELSE Return(s, PyList(CycleFrom(path, neighbor)))
                 ELSE IF s.color[neighbor] = WHITE
                      THEN FindCycleEnter(next, neighbor, path)
                 ELSE next

\* Mutation of FindCycleAfterCall: the top level returns what its first walk
\* returned, "return dfs(node, [])".
FindCycleAfterCall_FirstWalkOnly(s) ==
    IF s.stack = <<>>
    THEN [s EXCEPT !.pc = "done", !.result = s.ret]
    ELSE IF Truthy(s.ret)
         THEN Return(s, s.ret)
         ELSE [s EXCEPT !.pc = "walk"]

\* The caller tests the returned value: "if result: return result" inside
\* dfs, "if cycle: return cycle" at top level.
FindCycleAfterCall(s) ==
    IF s.stack = <<>>
    THEN IF Truthy(s.ret)
         THEN [s EXCEPT !.pc = "done", !.result = s.ret]
         ELSE [s EXCEPT !.pc = "loop", !.i = @ + 1]
    ELSE IF Truthy(s.ret)
         THEN Return(s, s.ret)
         ELSE [s EXCEPT !.pc = "walk"]

FindCycleStep(s) ==
    CASE s.pc = "loop" -> FindCycleLoop(s)
      [] s.pc = "walk" -> FindCycleWalk(s)
      [] s.pc = "ret"  -> FindCycleAfterCall(s)
      [] OTHER         -> s

----------------------------------------------------------------------------
(* is_dag_topological.                                                     *)

\* The loop "for edge in edges", from edge k on: a kept edge is appended to
\* its source's neighbours and counted in its target's in-degree.
RECURSIVE CountEdges(_, _, _)
CountEdges(d, es, k) ==
    IF k > Len(es) THEN d
    ELSE LET source == es[k][1]
             target == es[k][2]
         IN  IF source \in DOMAIN d.adjacency /\ target \in DOMAIN d.adjacency
             THEN CountEdges([d EXCEPT !.adjacency[source] = Append(@, target),
                                       !.indegree[target] = @ + 1], es, k + 1)
             ELSE CountEdges(d, es, k + 1)

\* [node_id for node_id, degree in indegree.items() if degree == 0]
ZeroDegree(ns, ind) == SelectSeq(Keys(ns), LAMBDA n : ind[n] = 0)

\* The identifiers of a list, counted.
Tally(q) == [n \in Ids |-> Cardinality({k \in 1..Len(q) : q[k] = n})]

KahnStart(ns, es) ==
    LET d == CountEdges([adjacency |-> DictOf(ns, <<>>),
                         indegree  |-> DictOf(ns, 0)], es, 1)
        q == ZeroDegree(ns, d.indegree)
    IN  [fn |-> "is_dag_topological", nodes |-> ns, edges |-> es, pc |-> "kahn",
         adjacency |-> d.adjacency,
         color |-> NoDict,
         stack |-> <<>>, i |-> 1, ret |-> Unset,
         indegree |-> d.indegree, queue |-> q, visited |-> 0,
         result |-> Unset, calls |-> Zero, pushes |-> Tally(q)]

\* Mutation of Relax: the test for zero comes before the decrement.
RECURSIVE Relax_TestsBeforeDecrement(_, _, _)
Relax_TestsBeforeDecrement(s, nbrs, j) ==
    IF j > Len(nbrs) THEN s
    ELSE LET neighbor == nbrs[j]
         IN  IF neighbor \notin DOMAIN s.indegree THEN Raise(s)
             ELSE LET dec == [s EXCEPT !.indegree[neighbor] = @ - 1]
                  IN  IF s.indegree[neighbor] = 0
                      THEN Relax_TestsBeforeDecrement(
                               [dec EXCEPT !.queue = Append(@, neighbor),
                                           !.pushes[neighbor] = @ + 1],
                               nbrs, j + 1)
                      ELSE Relax_TestsBeforeDecrement(dec, nbrs, j + 1)

\* "for neighbor in adjacency[node_id]" from neighbour j on: the in-degree
\* is decremented, and the neighbour is queued when it has reached zero.
RECURSIVE Relax(_, _, _)
Relax(s, nbrs, j) ==
    IF j > Len(nbrs) THEN s
    ELSE LET neighbor == nbrs[j]
         IN  IF neighbor \notin DOMAIN s.indegree THEN Raise(s)
             ELSE LET dec == [s EXCEPT !.indegree[neighbor] = @ - 1]
                  IN  IF dec.indegree[neighbor] = 0
                      THEN Relax([dec EXCEPT !.queue = Append(@, neighbor),
                                             !.pushes[neighbor] = @ + 1],
                                 nbrs, j + 1)
                      ELSE Relax(dec, nbrs, j + 1)

\* The element at position k leaves the list.
Without(q, k) == SubSeq(q, 1, k - 1) \o SubSeq(q, k + 1, Len(q))

\* Mutation of KahnTurn: the element at position k is processed, but the
\* last one is what leaves the list ("node_id = queue[k]; queue.pop()").
KahnTurn_PopsLast(s, k) ==
    LET node_id == s.queue[k]
        popped  == [s EXCEPT !.queue = Without(@, Len(@)), !.visited = @ + 1]
    IN  IF node_id \notin DOMAIN s.adjacency THEN Raise(s)
        ELSE Relax(popped, s.adjacency[node_id], 1)

\* One turn of "while queue" in which the element at position k of the
\* worklist is the one removed; queue.pop() removes the last one.
KahnTurn(s, k) ==
    LET node_id == s.queue[k]
        popped  == [s EXCEPT !.queue = Without(@, k), !.visited = @ + 1]
    IN  IF node_id \notin DOMAIN s.adjacency THEN Raise(s)
        ELSE Relax(popped, s.adjacency[node_id], 1)

KahnPop(s) == KahnTurn(s, Len(s.queue))

\* return visited == len(node_ids)
KahnReturn(s) ==
    [s EXCEPT !.pc = "done", !.result = PyBool(s.visited = Len(s.nodes))]

KahnStep(s) ==
    IF s.pc # "kahn" THEN s
    ELSE IF s.queue # <<>> THEN KahnPop(s)
    ELSE KahnReturn(s)

----------------------------------------------------------------------------
(* A call from its first statement to its return.                          *)

Functions == {"is_dag_dfs", "find_cycle_dfs", "is_dag_topological"}

Start(f, ns, es) ==
    CASE f = "is_dag_dfs"         -> IsDagStart(ns, es)
      [] f = "find_cycle_dfs"     -> FindCycleStart(ns, es)
      [] f = "is_dag_topological" -> KahnStart(ns, es)

Step(s) ==
    CASE s.fn = "is_dag_dfs"         -> IsDagStep(s)
      [] s.fn = "find_cycle_dfs"     -> FindCycleStep(s)
      [] s.fn = "is_dag_topological" -> KahnStep(s)

Ended(s) == s.pc \in {"done", "error"}

RECURSIVE Run(_)
Run(s) == IF Ended(s) THEN s ELSE Run(Step(s))

\* What a call returns; a call that raised returns nothing.
Outcome(s) == IF s.pc = "done" THEN s.result ELSE [Unset EXCEPT !.kind = "raised"]

is_dag_dfs(ns, es)         == Outcome(Run(IsDagStart(ns, es)))
find_cycle_dfs(ns, es)     == Outcome(Run(FindCycleStart(ns, es)))
is_dag_topological(ns, es) == Outcome(Run(KahnStart(ns, es)))

----------------------------------------------------------------------------
(* The state machine of one call.                                          *)

State ==
    [fn |-> fn, nodes |-> nodes, edges |-> edges, pc |-> pc,
     adjacency |-> adjacency, color |-> color, stack |-> stack, i |-> i,
     ret |-> ret, indegree |-> indegree, queue |-> queue, visited |-> visited,
     result |-> result, calls |-> calls, pushes |-> pushes]

Becomes(s) ==
    /\ fn' = s.fn /\ nodes' = s.nodes /\ edges' = s.edges /\ pc' = s.pc
    /\ adjacency' = s.adjacency /\ color' = s.color /\ stack' = s.stack
    /\ i' = s.i /\ ret' = s.ret /\ indegree' = s.indegree /\ queue' = s.queue
    /\ visited' = s.visited /\ result' = s.result /\ calls' = s.calls
    /\ pushes' = s.pushes

Starts(s) ==
    /\ fn = s.fn /\ nodes = s.nodes /\ edges = s.edges /\ pc = s.pc
    /\ adjacency = s.adjacency /\ color = s.color /\ stack = s.stack
    /\ i = s.i /\ ret = s.ret /\ indegree = s.indegree /\ queue = s.queue
    /\ visited = s.visited /\ result = s.result /\ calls = s.calls
    /\ pushes = s.pushes

Init ==
    \E f \in Functions, ns \in NodeLists, es \in EdgeLists :
        Starts(Start(f, ns, es))

IsDagLoopStep      == fn = "is_dag_dfs" /\ pc = "loop" /\ Becomes(IsDagLoop(State))
IsDagWalkStep      == fn = "is_dag_dfs" /\ pc = "walk" /\ Becomes(IsDagWalk(State))
IsDagAfterCallStep == fn = "is_dag_dfs" /\ pc = "ret"  /\ Becomes(IsDagAfterCall(State))

FindCycleLoopStep      ==
    fn = "find_cycle_dfs" /\ pc = "loop" /\ Becomes(FindCycleLoop(State))
FindCycleWalkStep      ==
    fn = "find_cycle_dfs" /\ pc = "walk" /\ Becomes(FindCycleWalk(State))
FindCycleAfterCallStep ==
    fn = "find_cycle_dfs" /\ pc = "ret"  /\ Becomes(FindCycleAfterCall(State))

KahnPopStep ==
    fn = "is_dag_topological" /\ pc = "kahn" /\ queue # <<>> /\ Becomes(KahnPop(State))
KahnReturnStep ==
    fn = "is_dag_topological" /\ pc = "kahn" /\ queue = <<>> /\ Becomes(KahnReturn(State))

Next ==
    \/ IsDagLoopStep
    \/ IsDagWalkStep
    \/ IsDagAfterCallStep
    \/ FindCycleLoopStep
    \/ FindCycleWalkStep
    \/ FindCycleAfterCallStep
    \/ KahnPopStep
    \/ KahnReturnStep

Spec == Init /\ [][Next]_vars

\* A call runs until it returns: nothing but its own steps can stop it.
FairSpec == Spec /\ WF_vars(Next)

----------------------------------------------------------------------------
(* The graph an input denotes, without reference to either algorithm.      *)

Done == pc = "done"

Distinct(ns) == \A a, b \in 1..Len(ns) : a # b => ns[a] # ns[b]

IsValid(ns, e) == e[1] \in Declared(ns) /\ e[2] \in Declared(ns)

\* The edges with both ends declared, in the order given.
ValidEdges(ns, es) == SelectSeq(es, LAMBDA e : IsValid(ns, e))

EdgeSet(ns, es) == {es[k] : k \in {j \in 1..Len(es) : IsValid(ns, es[j])}}

Dangling(ns, es) == {es[k] : k \in {j \in 1..Len(es) : ~IsValid(ns, es[j])}}

Compose(R, S) ==
    {p \in Ids \X Ids : \E b \in Ids : <<p[1], b>> \in R /\ <<b, p[2]>> \in S}

\* Paths of one or more edges: with |Ids| nodes, |Ids| rounds close R.
RECURSIVE Paths(_, _)
Paths(R, n) == IF n = 0 THEN R ELSE Paths(R \cup Compose(R, R), n - 1)

HasCycle(ns, es) ==
    \E n \in Declared(ns) : <<n, n>> \in Paths(EdgeSet(ns, es), Cardinality(Ids))

----------------------------------------------------------------------------
(* Claims about the values returned.                                       *)

\* C1: on a node list with pairwise distinct identifiers and any edge list
\* (self-loops, repeated edges and edges with an undeclared end included),
\* is_dag_topological returns the boolean is_dag_dfs returns.
C1_DfsAndKahnAgree ==
    (Done /\ fn = "is_dag_topological" /\ Distinct(nodes))
        => /\ result.kind = "bool"
           /\ result = is_dag_dfs(nodes, edges)

\* The two agree on "cyclic" for a graph with a repeated edge and a
\* dangling edge, and on "acyclic" for one with two declared nodes.
C1_Witness ==
    /\ Done /\ fn = "is_dag_topological" /\ Distinct(nodes)
    /\ result = PyBool(FALSE)
    /\ Dangling(nodes, edges) # {}
    /\ \E a, b \in 1..Len(edges) : a # b /\ edges[a] = edges[b]
                                         /\ IsValid(nodes, edges[a])

\* A closed walk of the graph: a non-empty list that ends where it starts
\* and whose consecutive pairs are edges of the edge list between declared
\* nodes.
ClosedWalk(v, ns, es) ==
    /\ v.kind = "list"
    /\ Len(v.list) > 0
    /\ v.list[1] = v.list[Len(v.list)]
    /\ \A k \in 1..(Len(v.list) - 1) :
           <<v.list[k], v.list[k + 1]>> \in EdgeSet(ns, es)

\* C2: whenever is_dag_dfs returns false, find_cycle_dfs returns a closed
\* walk of the graph.
C2_CycleIsClosedWalk ==
    (Done /\ fn = "find_cycle_dfs" /\ is_dag_dfs(nodes, edges) = PyBool(FALSE))
        => ClosedWalk(result, nodes, edges)

\* A cycle that does not start at the first node explored: the walk from A
\* reaches the loop between B and C.
C2_Witness ==
    /\ Done /\ fn = "find_cycle_dfs"
    /\ is_dag_dfs(nodes, edges) = PyBool(FALSE)
    /\ result.kind = "list" /\ Len(result.list) = 3
    /\ result.list[1] # nodes[1]

\* C3: find_cycle_dfs returns None exactly when is_dag_dfs returns true, and
\* a list exactly when is_dag_dfs returns false; the empty graph is a DAG.
C3_CycleIffNotDag ==
    (Done /\ fn = "find_cycle_dfs")
        => /\ (result = PyNone) <=> (is_dag_dfs(nodes, edges) = PyBool(TRUE))
           /\ (result # PyNone) <=> (is_dag_dfs(nodes, edges) = PyBool(FALSE))
           /\ (nodes = <<>> /\ edges = <<>>) => result = PyNone

\* None is returned for a graph that has valid edges and several nodes.
C3_Witness ==
    /\ Done /\ fn = "find_cycle_dfs" /\ result = PyNone
    /\ Cardinality(EdgeSet(nodes, edges)) >= 2

\* C4: no call raises, and each of the three functions returns for an edge
\* list what it returns for that list without its dangling edges; so two
\* edge lists that differ only in dangling edges get the same result.
C4_DanglingEdgesIgnored ==
    /\ pc # "error"
    /\ Done => result = Outcome(Run(Start(fn, nodes, ValidEdges(nodes, edges))))

C4_Witness ==
    /\ Done /\ fn = "find_cycle_dfs" /\ result.kind = "list"
    /\ \E e \in Dangling(nodes, edges) : e[1] \in Declared(nodes)
    /\ \E e \in Dangling(nodes, edges) : e[2] \in Declared(nodes)

Reverse(q) == [k \in 1..Len(q) |-> q[Len(q) + 1 - k]]

\* C7: is_dag_dfs returns false exactly when some declared node reaches
\* itself along valid edges.  The right-hand side reads only the set of
\* declared nodes and the set of valid edges, and every ordering of every
\* node list and edge list within the bounds is an input, so the verdict is
\* the same for all orderings; the reversed lists are compared outright.
C7_FalseIffCycle ==
    (Done /\ fn = "is_dag_dfs")
        => /\ result.kind = "bool"
           /\ (result = PyBool(FALSE)) <=> HasCycle(nodes, edges)
           /\ result = is_dag_dfs(Reverse(nodes), Reverse(edges))

\* A DAG in which the walk meets a finished node again: declared order
\* explores the target of an edge before its source.
C7_Witness ==
    /\ Done /\ fn = "is_dag_dfs" /\ result = PyBool(TRUE)
    /\ \E e \in EdgeSet(nodes, edges) :
           \E a, b \in 1..Len(nodes) : a < b /\ nodes[a] = e[2] /\ nodes[b] = e[1]

\* The node list without repeated identifiers, first occurrences kept.
Deduplicated(ns) == Keys(ns)

\* C10: also when the node list repeats an identifier, is_dag_dfs and
\* is_dag_topological return the same boolean as each other and as for the
\* de-duplicated node list.
C10_DuplicatesDoNotMatter ==
    (Done /\ fn = "is_dag_topological")
        => /\ result = is_dag_dfs(nodes, edges)
           /\ result = is_dag_topological(Deduplicated(nodes), edges)

----------------------------------------------------------------------------
(* Claims about the course of a call.                                      *)

DfsCall == fn \in {"is_dag_dfs", "find_cycle_dfs"}

Neighbours(n) == {adjacency[n][k] : k \in 1..Len(adjacency[n])}

\* The value "a back-edge was met" travels with: False from is_dag_dfs's
\* dfs, a list from find_cycle_dfs's dfs.
Failure(v) == v = PyBool(FALSE) \/ v.kind = "list"

BackEdgeMet ==
    /\ DfsCall
    /\ \/ pc = "ret" /\ Failure(ret)
       \/ pc = "done" /\ Failure(result)

\* A bound on the steps a call still has to take.  For the DFS functions:
\* every unvisited node may still open a frame, every frame has its
\* unexamined neighbours and its return to come, the top-level loop its
\* remaining entries, and a returned value is still to be tested.  For
\* is_dag_topological: the keys not yet removed from the worklist.
RECURSIVE FrameWork(_)
FrameWork(k) ==
    IF k = 0 THEN 0
    ELSE FrameWork(k - 1) + 2
         + (Len(adjacency[stack[k].node]) + 1 - stack[k].idx)

Variant ==
    IF DfsCall
    THEN (Len(edges) + 3) * Cardinality({n \in DOMAIN color : color[n] = WHITE})
         + FrameWork(Len(stack))
         + (Len(nodes) + 1 - i)
         + (CASE pc = "ret" -> 2 [] pc \in {"loop", "walk"} -> 1 [] OTHER -> 0)
    ELSE Cardinality(DOMAIN indegree) - visited
         + (IF pc = "kahn" THEN 1 ELSE 0)

\* C5 (state part): dfs is entered at most once per node, the worklist
\* receives each node at most once, no call ends in an error, a call that
\* has not returned is at a statement whose execution changes the state,
\* and a call that has returned has a definite value and, for
\* is_dag_topological, an empty worklist.
C5_AtMostOnce ==
    /\ pc # "error"
    /\ \A n \in Ids : calls[n] <= 1 /\ pushes[n] <= 1
    /\ Variant >= 0
    /\ Done \/ (pc \in {"loop", "walk", "ret", "kahn"} /\ Step(State) # State)
    /\ Done => /\ result.kind \in {"bool", "list", "None"}
               /\ fn = "is_dag_topological" => queue = <<>>

\* C5 (step part): every step lowers the bound on the steps to come.
C5_Progress == Variant' < Variant

\* C5: every call of any of the three functions on a finite node list and
\* edge list returns a definite value (a boolean, or a list or None from
\* find_cycle_dfs), with the worklist of is_dag_topological empty, having
\* entered dfs at most once per node and queued each node at most once: a
\* call that has not returned always has a next step, and a natural number
\* decreases with every step, so only finitely many steps are taken.
C5_Terminates == []C5_AtMostOnce /\ [][C5_Progress]_vars

\* The same as a property of behaviours, under FairSpec: a call that keeps
\* taking its steps returns.
C5_EventuallyReturns == <>Done

\* A Kahn run that queued every node, two of them after the seeding.
C5_Witness ==
    /\ Done /\ fn = "is_dag_topological"
    /\ \A n \in Ids : pushes[n] = 1
    /\ Cardinality(EdgeSet(nodes, edges)) >= 2

\* C8 (state part): the node of every active dfs call is IN_PROGRESS, so it
\* was marked before any of its neighbours was examined, and every
\* neighbour of a DONE node is DONE.
C8_ColourInvariant ==
    DfsCall =>
        /\ \A k \in 1..Len(stack) : color[stack[k].node] = GRAY
        /\ \A n \in DOMAIN color :
               color[n] = BLACK => \A m \in Neighbours(n) : color[m] = BLACK

\* C8 (step part): a colour changes only from UNVISITED to IN_PROGRESS or
\* from IN_PROGRESS to DONE; a node turns DONE only when its neighbours are
\* all DONE; and once a back-edge is met no colour changes any more.
C8_ColourStep ==
    DfsCall =>
        /\ \A n \in DOMAIN color :
               \/ color'[n] = color[n]
               \/ color[n] = WHITE /\ color'[n] = GRAY
               \/ /\ color[n] = GRAY /\ color'[n] = BLACK
                  /\ \A m \in Neighbours(n) : color[m] = BLACK
        /\ BackEdgeMet => (BackEdgeMet' /\ color' = color)

\* C8: during a run of is_dag_dfs or find_cycle_dfs colours only move
\* UNVISITED -> IN_PROGRESS -> DONE, a node is IN_PROGRESS while it is
\* explored and DONE only after all its neighbours are, every neighbour of
\* a DONE node is DONE, and after a back-edge no colour changes.
C8_ColourDiscipline == []C8_ColourInvariant /\ [][C8_ColourStep]_vars

\* A back-edge was met deep in the walk while another node was finished:
\* the failure is on its way up and the colours stay as they are.
C8_Witness ==
    /\ DfsCall /\ pc = "ret" /\ Failure(ret) /\ stack # <<>>
    /\ \E n \in DOMAIN color : color[n] = BLACK
    /\ \E n \in DOMAIN color : color[n] = GRAY

InProgress == {n \in DOMAIN color : color[n] = GRAY}

\* The dfs call that is executing, while the walk goes on: a call examining
\* its neighbours, or one that got None back from the call it made.
Exploring == stack # <<>> /\ (pc = "walk" \/ (pc = "ret" /\ ~Failure(ret)))

\* C9 (state part): the path of the executing call is the list of the nodes
\* of the active calls, outermost first, which are exactly the IN_PROGRESS
\* nodes, none twice; between walks no node is IN_PROGRESS; and the
\* function ends with the colours is_dag_dfs ends with.
C9_PathInvariant ==
    fn = "find_cycle_dfs" =>
        /\ Exploring =>
               LET path == stack[Len(stack)].path
               IN  /\ path = [k \in 1..Len(stack) |-> stack[k].node]
                   /\ Declared(path) = InProgress
                   /\ Distinct(path)
        /\ pc = "loop" => InProgress = {}
        /\ Done => color = Run(IsDagStart(nodes, edges)).color
        /\ (Done /\ nodes = <<"A", "B", "C">>
                 /\ edges = <<<<"A", "B">>, <<"B", "C">>, <<"C", "A">>>>)
               => result = PyList(<<"A", "B", "C", "A">>)
        /\ (Done /\ nodes = <<"A">> /\ edges = <<<<"A", "A">>>>)
               => result = PyList(<<"A", "A">>)

\* C9 (step part): the step that meets a back-edge to the IN_PROGRESS
\* neighbour N returns the suffix of the path from N on with N appended,
\* and that value is handed up unchanged and returned by the function.
C9_PathStep ==
    fn = "find_cycle_dfs" =>
        /\ (pc = "walk" /\ pc' = "ret" /\ ret'.kind = "list") =>
               LET top  == stack[Len(stack)]
                   N    == adjacency[top.node][top.idx]
               IN  /\ color[N] = GRAY
                   /\ \E k \in 1..Len(top.path) :
                          /\ top.path[k] = N
                          /\ ret'.list = SubSeq(top.path, k, Len(top.path)) \o <<N>>
        /\ (pc = "ret" /\ ret.kind = "list") =>
               IF pc' = "done" THEN result' = ret ELSE pc' = "ret" /\ ret' = ret

\* C9: in find_cycle_dfs the path of the executing call lists the
\* IN_PROGRESS nodes once each in the order their exploration began, and
\* the first back-edge met, to a neighbour N, makes the function return the
\* suffix of that path from N with N appended.
C9_PathIsInProgress == []C9_PathInvariant /\ [][C9_PathStep]_vars

\* The two ends of one edge are explored in two separate walks and the
\* cycle returned is a proper suffix of the path.
C9_Witness ==
    /\ Done /\ fn = "find_cycle_dfs"
    /\ nodes = <<"A", "B", "C">>
    /\ edges = <<<<"A", "B">>, <<"B", "C">>, <<"C", "B">>>>
    /\ result = PyList(<<"B", "C", "B">>)

----------------------------------------------------------------------------
(* is_dag_topological with the worklist element to remove left open.       *)

InitKahn ==
    \E ns \in NodeLists, es \in EdgeLists : Starts(KahnStart(ns, es))

KahnAnyTurnStep ==
    /\ fn = "is_dag_topological" /\ pc = "kahn" /\ queue # <<>>
    /\ \E k \in 1..Len(queue) : Becomes(KahnTurn(State, k))

NextAnyOrder ==
    \/ KahnAnyTurnStep
    \/ KahnReturnStep

SpecAnyOrder == InitKahn /\ [][NextAnyOrder]_vars

\* The nodes Kahn's elimination resolves: those no cycle leads to.
Resolvable(ns, es) ==
    LET P == Paths(EdgeSet(ns, es), Cardinality(Ids))
    IN  {n \in Declared(ns) :
            /\ <<n, n>> \notin P
            /\ \A m \in Declared(ns) : <<m, m>> \in P => <<m, n>> \notin P}

\* C6: whichever worklist element each turn removes, no in-degree becomes
\* negative, the final resolved count is the one the code's order (remove
\* the last) ends with, namely the number of nodes no cycle leads to, and
\* the boolean returned is the one the code returns.
C6_OrderIrrelevant ==
    /\ pc # "error"
    /\ \A n \in DOMAIN indegree : indegree[n] >= 0
    /\ Done => /\ visited = Run(KahnStart(nodes, edges)).visited
               /\ visited = Cardinality(Resolvable(nodes, edges))
               /\ result = is_dag_topological(nodes, edges)

\* A turn has removed an element other than the last one: the state is not
\* the one the code is in after its first turn.
C6_Witness ==
    /\ pc = "kahn" /\ visited = 1 /\ queue # <<>>
    /\ State # Step(KahnStart(nodes, edges))
    /\ \E n \in DOMAIN indegree : indegree[n] > 0

====
